---- MODULE Spec2Model ----
(***************************************************************************)
(* A model of the GeoH2 data-preparation scripts.                          *)
(*                                                                         *)
(*   Spec        prep_after_spider.py: the per-country loop that joins the *)
(*               GLAES placements into the SPIDER hexagons, tags the       *)
(*               hexagons with countries and removes the extra ones.       *)
(*   SpecRemove  remove_extra_hexagons applied to arbitrary feature lists. *)
(*   SpecBefore  the exclusion drivers: prep_before_spider.py and          *)
(*               Inputs_Glaes/workflow.py.                                 *)
(*   SpecCombine the counting step on arbitrary placement layers.          *)
(*   SpecConfig  make_spider_configs.py: replace_country over nested       *)
(*               templates, one config per country.                        *)
(*   SpecClean   the country-name cleaning of the country loops.           *)
(*   SpecEPSG    the UTM zone formula and the reprojection that uses it.   *)
(*   SpecHydro   the hydropower step of prep_before_spider.py.             *)
(*                                                                         *)
(* Geometry is one-dimensional: a hexagon or a country polygon is a closed *)
(* interval [lo, hi] of a line, a placement point is a location on it.     *)
(* "within" is shapely's: the point lies in the interior.  "intersects"    *)
(* is shapely's: the closed sets share at least one location.              *)
(* Strings that the code takes apart (country names, ISO codes) are        *)
(* sequences of characters; a path is the sequence of its pieces.          *)
(***************************************************************************)
EXTENDS Integers, Sequences, FiniteSets, TLC

VARIABLES
    country_names,          \* args.countries
    isocodes,               \* args.isocodes (<<>>: the option was not given)
    pc,                     \* position of prep_after_spider's main block
    i,                      \* position of the for loop in country_names
    iso_count,              \* the local iso_count
    hex,                    \* the GeoDataFrame hex (rows in order)
    wind_points,            \* turbine placement points read for this country
    pv_points,              \* pv placement points read for this country
    hexagons,               \* the GeoDataFrame read back at line 184
    hexagons_with_country,  \* the result of assign_country
    final_hexagons,         \* the features of remove_extra_hexagons' result
    output_hexagon_path,    \* the local output_hexagon_path
    files,                  \* the files written so far: path -> features
    written,                \* every write so far: [path, iter]
    last_update,            \* what the latest update_hexagons call did
    empty_seen,             \* iterations whose hexagon set was empty
    b                       \* the state of the other scripts and steps, a record

vars == <<country_names, isocodes, pc, i, iso_count, hex, wind_points,
          pv_points, hexagons, hexagons_with_country, final_hexagons,
          output_hexagon_path, files, written, last_update, empty_seen, b>>

---------------------------------------------------------------------------
(* Bounds *)

NumHex == 2         \* hexagon tiles of the SPIDER grid
MaxPoints == 1      \* placement points of one country in a run of the main block
MaxLayer == 2       \* points of one placement layer given to the counting step
MaxFeatures == 3    \* features of a list given to remove_extra_hexagons

---------------------------------------------------------------------------
(* Country names and their cleaning *)

Togo == <<"T", "o", "g", "o">>
EqGuinea == <<"E", "q", ".", " ", "G", "u", "i", "n", "e", "a">>

\* The batches of countries a run is given on the command line.
Batches == {<<Togo>>, <<EqGuinea>>, <<Togo, EqGuinea>>, <<EqGuinea, Togo>>}

IsoOf(name) == IF name = Togo THEN <<"T", "G">> ELSE <<"G", "Q">>

\* unidecode of one character: the nearest ASCII text.
unidecode_char(c) ==
    CASE c = "ô" -> <<"o">>
      [] c = "é" -> <<"e">>
      [] c = "ã" -> <<"a">>
      [] c = "´" -> <<"'">>
      [] OTHER -> <<c>>

RECURSIVE unidecode(_)
unidecode(s) ==
    IF s = <<>> THEN <<>> ELSE unidecode_char(Head(s)) \o unidecode(Tail(s))

\* A removal that also drops what stands before the character.
str_delete_through(s, ch) ==
    IF \E k \in DOMAIN s : s[k] = ch
    THEN LET last == CHOOSE k \in DOMAIN s : s[k] = ch /\ \A j \in DOMAIN s : s[j] = ch => j <= k
         IN  SubSeq(s, last + 1, Len(s))
    ELSE s

\* str.replace(ch, "")
str_delete(s, ch) == SelectSeq(s, LAMBDA c : c # ch)

\* The cleaning with the deletions made before the transliteration.
CleanName_delete_first(s) ==
    unidecode(str_delete(str_delete(str_delete(s, " "), "."), "'"))

\* The inline cleaning of the country loops.
CleanName(s) == str_delete(str_delete(str_delete(unidecode(s), " "), "."), "'")

\* utils.clean_country_name: "country names without accents, spaces,
\* apostrophes, or periods".
clean_country_name(s) == CleanName(s)

---------------------------------------------------------------------------
(* Paths: os.path.join and the f-strings *)

Path(dir, stem, suffix) == <<dir>> \o stem \o <<suffix>>

hex_path(clean) == Path("ccg-spider/prep/", clean, "_hex.geojson")
wind_path(name) == Path("inputs_glaes/processed/", name, "_turbine_placements.shp")
pv_path(name) == Path("inputs_glaes/processed/", name, "_pv_placements.shp")
save_path(clean) == Path("inputs_geox/data/", clean, "_hex_final.geojson")
hexagons_with_country_path(iso) ==
    Path("inputs_geox/data/hexagons_with_country_", iso, ".geojson")

---------------------------------------------------------------------------
(* Geometry *)

Tiles == 1..NumHex
TileGeometry(h) == [lo |-> 4 * (h - 1), hi |-> 4 * h]

\* Where a placement point can lie: on a tile edge, in a tile's interior,
\* or beyond the grid.
Outside == 4 * NumHex + 1
PointLocs == {2 * k : k \in 0..(2 * NumHex)} \cup {Outside}

\* shapely: point.within(polygon)
Within(p, g) == g.lo < p /\ p < g.hi

\* shapely: a.intersects(b)
Intersects(g1, g2) ==
    (IF g1.lo > g2.lo THEN g1.lo ELSE g2.lo) <= (IF g1.hi < g2.hi THEN g1.hi ELSE g2.hi)

\* The predicate of a spatial join of points (left) with polygons (right).
PointPredicate(predicate, p, g) ==
    IF predicate = "within" THEN Within(p, g) ELSE g.lo <= p /\ p <= g.hi

\* The predicate of a spatial join of polygons with polygons; a polygon is
\* within another when no part of it lies outside and their interiors meet.
PolygonPredicate(predicate, g1, g2) ==
    IF predicate = "within"
    THEN g2.lo <= g1.lo /\ g1.hi <= g2.hi /\ g1.lo < g1.hi
    ELSE Intersects(g1, g2)

\* naturalearth_lowres, after assign_country renamed 'name' to 'country'.
world ==
    << [country |-> Togo, geometry |-> [lo |-> 5, hi |-> 7]],
       [country |-> EqGuinea, geometry |-> [lo |-> 7, hi |-> 4 * NumHex + 5]] >>

---------------------------------------------------------------------------
(* GeoDataFrames: a frame is the sequence of its rows; the row at position *)
(* p carries the label p - 1 (the RangeIndex of gpd.read_file).            *)

None == <<>>
Some(v) == <<v>>

RECURSIVE Flatten(_)
Flatten(ss) == IF ss = <<>> THEN <<>> ELSE Head(ss) \o Flatten(Tail(ss))

\* The hexagon file SPIDER wrote for a country: one row per tile of the
\* country's grid, its 'index' column numbering the rows from 0, as the
\* labels gpd.read_file gives them do.  A file without tiles reads as an
\* empty frame, the case update_hexagons' diagnostic speaks of.
RECURSIVE TileSeq(_)
TileSeq(S) ==
    IF S = {} THEN <<>>
    ELSE LET h == CHOOSE x \in S : \A y \in S : x <= y
         IN <<h>> \o TileSeq(S \ {h})

HexFile(S) ==
    LET ts == TileSeq(S)
    IN [p \in 1..Len(ts) |-> [index |-> p - 1, geometry |-> TileGeometry(ts[p])]]

HexFiles == {HexFile(S) : S \in SUBSET Tiles}

\* A placement layer: its points in order (sorted, the order is immaterial).
PointLayers(n) ==
    UNION {{s \in [1..k -> PointLocs] : \A a, c \in 1..k : a <= c => s[a] <= s[c]} : k \in 0..n}

\* gpd.sjoin(points, hex, how='left', predicate=...): one row per (point,
\* hexagon) pair that satisfies the predicate, carrying the hexagon's 'index'
\* column and its label (index_right); a point that matches no hexagon keeps
\* one row whose hexagon columns are NaN.
sjoin_left(points, frame, predicate) ==
    LET matches(k) == SelectSeq([p \in 1..Len(frame) |-> p],
                                LAMBDA p : PointPredicate(predicate, points[k], frame[p].geometry))
        rowsOf(k) ==
            IF matches(k) = <<>>
            THEN << [point |-> k, index |-> None, index_right |-> None] >>
            ELSE [m \in 1..Len(matches(k)) |->
                    [point |-> k,
                     index |-> Some(frame[matches(k)[m]].index),
                     index_right |-> Some(matches(k)[m] - 1)]]
    IN Flatten([k \in 1..Len(points) |-> rowsOf(k)])

\* joined.groupby(key).size(): a Series from the key's values to the number
\* of rows that carry it; rows whose key is NaN belong to no group.
groupby_size(joined, key) ==
    LET keyOf(r) == IF key = "index" THEN r.index ELSE r.index_right
        keys == {keyOf(joined[n])[1] : n \in {m \in 1..Len(joined) : keyOf(joined[m]) # None}}
    IN [v \in keys |-> Cardinality({n \in 1..Len(joined) : keyOf(joined[n]) = Some(v)})]

\* frame[column] = series; frame[column] = frame[column].fillna(0): the
\* series is aligned on the row labels, a label it lacks gets NaN, then 0.
counts_by(frame, points, key, predicate) ==
    LET counts == groupby_size(sjoin_left(points, frame, predicate), key)
        aligned(p) == IF (p - 1) \in DOMAIN counts THEN Some(counts[p - 1]) ELSE None
        fillna(x) == IF x = None THEN 0 ELSE x[1]
    IN [p \in 1..Len(frame) |-> fillna(aligned(p))]

\* The join made with predicate='intersects': a point on a hexagon's edge
\* matches the hexagon.
point_counts_intersects(frame, points, key) == counts_by(frame, points, key, "intersects")

point_counts(frame, points, key) == counts_by(frame, points, key, "within")

\* prep_after_spider.combine_glaes_spider: hex gains theo_turbines, theo_pv.
combine_glaes_spider(frame, wind, pv) ==
    LET turbines == point_counts(frame, wind, "index")
        pvs == point_counts(frame, pv, "index")
    IN [p \in 1..Len(frame) |->
          [index |-> frame[p].index, geometry |-> frame[p].geometry,
           theo_turbines |-> turbines[p], theo_pv |-> pvs[p]]]

\* The country loop of combine_glaes_spider.py: the same join, grouped by
\* index_right.
combine_country_loop(frame, wind, pv) ==
    LET turbines == point_counts(frame, wind, "index_right")
        pvs == point_counts(frame, pv, "index_right")
    IN [p \in 1..Len(frame) |->
          [index |-> frame[p].index, geometry |-> frame[p].geometry,
           theo_turbines |-> turbines[p], theo_pv |-> pvs[p]]]

\* assign_country: gpd.sjoin(hexagons, countries, op='intersects'), an inner
\* join: one row per (hexagon, country) pair whose geometries intersect, the
\* hexagon's columns followed by the country's name.  The rows are taken in
\* the order of the hexagons, then of the countries.
sjoin_inner(frame, right, predicate) ==
    LET rowsOf(p) ==
            LET ms == SelectSeq([c \in 1..Len(right) |-> c],
                                LAMBDA c : PolygonPredicate(predicate, frame[p].geometry, right[c].geometry))
            IN [m \in 1..Len(ms) |->
                   [index |-> frame[p].index, geometry |-> frame[p].geometry,
                    theo_turbines |-> frame[p].theo_turbines,
                    theo_pv |-> frame[p].theo_pv,
                    country |-> right[ms[m]].country]]
    IN Flatten([p \in 1..Len(frame) |-> rowsOf(p)])

\* The join made with op='within', as in the earlier revision: a hexagon
\* matches only a country that contains it.
assign_country_within(frame, countries) == sjoin_inner(frame, countries, "within")

assign_country(frame, countries) == sjoin_inner(frame, countries, "intersects")

\* list.remove(x): drop the first element equal to x.
RECURSIVE list_remove(_, _)
list_remove(l, x) ==
    IF l = <<>> THEN <<>>
    ELSE IF Head(l) = x THEN Tail(l)
    ELSE <<Head(l)>> \o list_remove(Tail(l), x)

\* The loop of remove_extra_hexagons over the copied list.
RECURSIVE remove_loop(_, _, _)
remove_loop(copied, features, target) ==
    IF copied = <<>> THEN features
    ELSE remove_loop(Tail(copied),
                     IF Head(copied).country # target
                     THEN list_remove(features, Head(copied))
                     ELSE features,
                     target)

\* remove_extra_hexagons' loop run over the list it removes from: after a
\* removal the iterator skips the element that moved into the freed place.
RECURSIVE remove_loop_live(_, _, _)
remove_loop_live(pos, features, target) ==
    IF pos > Len(features) THEN features
    ELSE IF features[pos].country # target
    THEN remove_loop_live(pos + 1, list_remove(features, features[pos]), target)
    ELSE remove_loop_live(pos + 1, features, target)

remove_extra_hexagons_live(fs, path, target) == remove_loop_live(1, fs[path], target)

\* remove_extra_hexagons: the features of the dict it returns.
remove_extra_hexagons(fs, path, target) == remove_loop(fs[path], fs[path], target)

\* update_hexagons: does it write the file?  form is "dict" or "gdf".
update_hexagons_writes(form, rows) ==
    IF form = "dict" THEN TRUE ELSE rows # <<>>

\* update_hexagons: the files after the call.
update_hexagons(fs, form, rows, path) ==
    IF update_hexagons_writes(form, rows) THEN (path :> rows) @@ fs ELSE fs

\* What a call of update_hexagons did.
UpdateRecord(form, rows, iter) ==
    [form |-> form, empty |-> (rows = <<>>), iter |-> iter,
     wrote |-> update_hexagons_writes(form, rows),
     diagnostic |-> ~update_hexagons_writes(form, rows)]

Writes(form, rows, path, iter) ==
    IF update_hexagons_writes(form, rows) THEN {[path |-> path, iter |-> iter]} ELSE {}


---------------------------------------------------------------------------
(* prep_after_spider.py, the main block *)

afterVars == <<country_names, isocodes, pc, i, iso_count, hex, wind_points,
               pv_points, hexagons, hexagons_with_country, final_hexagons,
               output_hexagon_path, files, written, last_update, empty_seen>>

NoUpdate == [form |-> "none", empty |-> FALSE, iter |-> 0, wrote |-> FALSE,
             diagnostic |-> FALSE]

country_name == country_names[i]
country_name_clean == clean_country_name(country_name)

BIdle == [pc |-> "off"]

Init ==
    /\ country_names \in Batches
    /\ isocodes \in {<<>>, [k \in 1..Len(country_names) |-> IsoOf(country_names[k])]}
    /\ pc = "start"
    /\ i = 1
    /\ iso_count = 0
    /\ hex = <<>>
    /\ wind_points = <<>>
    /\ pv_points = <<>>
    /\ hexagons = <<>>
    /\ hexagons_with_country = <<>>
    /\ final_hexagons = <<>>
    /\ output_hexagon_path = <<>>
    /\ files = <<>>
    /\ written = {}
    /\ last_update = NoUpdate
    /\ empty_seen = {}
    /\ b = BIdle

\* Line 146, "if not args.isocodes", never taken.
isocodes_missing_never(codes) == FALSE

\* Line 146: "if not args.isocodes"; -ic takes one or more values, so the
\* list is empty only when the option was left out.
isocodes_missing(codes) == codes = <<>>

\* Lines 139-147: parse the arguments; no ISO codes is a usage error
\* (parser.error prints the usage and exits).
ParseArgs ==
    /\ pc = "start"
    /\ pc' = IF isocodes_missing(isocodes) THEN "usage_error" ELSE "load"
    /\ UNCHANGED <<country_names, isocodes, i, iso_count, hex, wind_points,
                   pv_points, hexagons, hexagons_with_country, final_hexagons,
                   output_hexagon_path, files, written, last_update,
                   empty_seen, b>>

\* Lines 158-176: read the country's hexagons and placements, count the
\* placements into the hexagons.
LoadAndCombine ==
    /\ pc = "load"
    /\ \E frame \in HexFiles :
         \E wind \in PointLayers(MaxPoints) :
           \E pv \in PointLayers(MaxPoints - Len(wind)) :
             /\ hex' = combine_glaes_spider(frame, wind, pv)
             /\ wind_points' = wind
             /\ pv_points' = pv
             /\ empty_seen' = IF frame = <<>> THEN empty_seen \cup {i} ELSE empty_seen
    /\ pc' = "combined"
    /\ UNCHANGED <<country_names, isocodes, i, iso_count, hexagons,
                   hexagons_with_country, final_hexagons, output_hexagon_path,
                   files, written, last_update, b>>

\* Lines 178-180: update_hexagons(hex, save_path).  The placement layers are
\* not used again.
SaveHexFinal ==
    /\ pc = "combined"
    /\ files' = update_hexagons(files, "gdf", hex, save_path(country_name_clean))
    /\ written' = written \cup Writes("gdf", hex, save_path(country_name_clean), i)
    /\ last_update' = UpdateRecord("gdf", hex, i)
    /\ wind_points' = <<>>
    /\ pv_points' = <<>>
    /\ pc' = "saved"
    /\ UNCHANGED <<country_names, isocodes, i, iso_count, hex, hexagons,
                   hexagons_with_country, final_hexagons, output_hexagon_path,
                   empty_seen, b>>

\* Lines 184-189: read the saved hexagons back and name the output.
ReadHexFinal ==
    /\ pc = "saved"
    /\ save_path(country_name_clean) \in DOMAIN files
    /\ hexagons' = files[save_path(country_name_clean)]
    /\ LET reset == 0      \* line 187: iso_count=0, inside the loop body
       IN /\ output_hexagon_path' = hexagons_with_country_path(isocodes[reset + 1])
          /\ iso_count' = reset + 1
    /\ pc' = "named"
    /\ UNCHANGED <<country_names, isocodes, i, hex, wind_points, pv_points,
                   hexagons_with_country, final_hexagons, files, written,
                   last_update, empty_seen, b>>

\* Line 184 when the file is not there: gpd.read_file raises.
ReadHexFinalFault ==
    /\ pc = "saved"
    /\ save_path(country_name_clean) \notin DOMAIN files
    /\ pc' = "fault"
    /\ UNCHANGED <<country_names, isocodes, i, iso_count, hex, wind_points,
                   pv_points, hexagons, hexagons_with_country, final_hexagons,
                   output_hexagon_path, files, written, last_update,
                   empty_seen, b>>

\* Lines 191-192: assign_country, then update_hexagons.
AssignCountry ==
    /\ pc = "named"
    /\ hexagons_with_country' = assign_country(hexagons, world)
    /\ files' = update_hexagons(files, "gdf", hexagons_with_country', output_hexagon_path)
    /\ written' = written \cup Writes("gdf", hexagons_with_country', output_hexagon_path, i)
    /\ last_update' = UpdateRecord("gdf", hexagons_with_country', i)
    /\ pc' = "assigned"
    /\ UNCHANGED <<country_names, isocodes, i, iso_count, hex, wind_points,
                   pv_points, hexagons, final_hexagons, output_hexagon_path,
                   empty_seen, b>>

\* Lines 195-197: remove_extra_hexagons, then update_hexagons.
RemoveExtra ==
    /\ pc = "assigned"
    /\ output_hexagon_path \in DOMAIN files
    /\ final_hexagons' = remove_extra_hexagons(files, output_hexagon_path, country_name_clean)
    /\ files' = update_hexagons(files, "dict", final_hexagons', output_hexagon_path)
    /\ written' = written \cup Writes("dict", final_hexagons', output_hexagon_path, i)
    /\ last_update' = UpdateRecord("dict", final_hexagons', i)
    /\ pc' = "prepped"
    /\ UNCHANGED <<country_names, isocodes, i, iso_count, hex, wind_points,
                   pv_points, hexagons, hexagons_with_country,
                   output_hexagon_path, empty_seen, b>>

\* Line 111 when the file is not there: open raises.
RemoveExtraFault ==
    /\ pc = "assigned"
    /\ output_hexagon_path \notin DOMAIN files
    /\ pc' = "fault"
    /\ UNCHANGED <<country_names, isocodes, i, iso_count, hex, wind_points,
                   pv_points, hexagons, hexagons_with_country, final_hexagons,
                   output_hexagon_path, files, written, last_update,
                   empty_seen, b>>

\* Line 156: the next country, or the end of the run.
NextCountry ==
    /\ pc = "prepped"
    /\ IF i < Len(country_names)
       THEN i' = i + 1 /\ pc' = "load"
       ELSE i' = i /\ pc' = "done"
    /\ UNCHANGED <<country_names, isocodes, iso_count, hex, wind_points,
                   pv_points, hexagons, hexagons_with_country, final_hexagons,
                   output_hexagon_path, files, written, last_update,
                   empty_seen, b>>

Next ==
    \/ ParseArgs
    \/ LoadAndCombine
    \/ SaveHexFinal
    \/ ReadHexFinal
    \/ ReadHexFinalFault
    \/ AssignCountry
    \/ RemoveExtra
    \/ RemoveExtraFault
    \/ NextCountry

Spec == Init /\ [][Next]_vars


---------------------------------------------------------------------------
(* The counting step on its own: any hexagon grid, any two placement       *)
(* layers.                                                                 *)

InitCombine ==
    /\ hex \in HexFiles
    /\ wind_points \in PointLayers(MaxLayer)
    /\ pv_points \in PointLayers(MaxLayer)
    /\ pc = "join"
    /\ country_names = <<Togo>>
    /\ isocodes = <<IsoOf(Togo)>>
    /\ i = 1
    /\ iso_count = 0
    /\ hexagons = <<>>
    /\ hexagons_with_country = <<>>
    /\ final_hexagons = <<>>
    /\ output_hexagon_path = <<>>
    /\ files = <<>>
    /\ written = {}
    /\ last_update = NoUpdate
    /\ empty_seen = {}
    /\ b = BIdle

\* prep_after_spider.combine_glaes_spider(hex, wind_points, pv_points)
CombineStep ==
    /\ pc = "join"
    /\ hex' = combine_glaes_spider(hex, wind_points, pv_points)
    /\ pc' = "combined"
    /\ UNCHANGED <<country_names, isocodes, i, iso_count, wind_points,
                   pv_points, hexagons, hexagons_with_country, final_hexagons,
                   output_hexagon_path, files, written, last_update,
                   empty_seen, b>>

\* combine_glaes_spider.py, lines 52-76 of its country loop
CombineCountryLoop ==
    /\ pc = "join"
    /\ hex' = combine_country_loop(hex, wind_points, pv_points)
    /\ pc' = "combined_loop"
    /\ UNCHANGED <<country_names, isocodes, i, iso_count, wind_points,
                   pv_points, hexagons, hexagons_with_country, final_hexagons,
                   output_hexagon_path, files, written, last_update,
                   empty_seen, b>>

NextCombine == CombineStep \/ CombineCountryLoop

SpecCombine == InitCombine /\ [][NextCombine]_vars

---------------------------------------------------------------------------
(* remove_extra_hexagons on its own: any feature list, the target as the   *)
(* main block passes it.                                                   *)

CountryTags == {Togo, EqGuinea, CleanName(EqGuinea)}

Features ==
    {[index |-> h - 1, geometry |-> TileGeometry(h), theo_turbines |-> h - 1,
      theo_pv |-> 0, country |-> c] : h \in Tiles, c \in CountryTags}

FeatureLists == UNION {[1..k -> Features] : k \in 0..MaxFeatures}

InitRemove ==
    /\ country_names \in {<<Togo>>, <<EqGuinea>>}
    /\ isocodes = <<IsoOf(country_names[1])>>
    /\ output_hexagon_path = hexagons_with_country_path(isocodes[1])
    /\ \E l \in FeatureLists : files = (output_hexagon_path :> l)
    /\ pc = "remove"
    /\ i = 1
    /\ iso_count = 1
    /\ hex = <<>>
    /\ wind_points = <<>>
    /\ pv_points = <<>>
    /\ hexagons = <<>>
    /\ hexagons_with_country = <<>>
    /\ final_hexagons = <<>>
    /\ written = {}
    /\ last_update = NoUpdate
    /\ empty_seen = {}
    /\ b = BIdle

\* remove_extra_hexagons(output_hexagon_path, country_name_clean)
RemoveStep ==
    /\ pc = "remove"
    /\ final_hexagons' = remove_extra_hexagons(files, output_hexagon_path, country_name_clean)
    /\ pc' = "removed"
    /\ UNCHANGED <<country_names, isocodes, i, iso_count, hex, wind_points,
                   pv_points, hexagons, hexagons_with_country,
                   output_hexagon_path, files, written, last_update,
                   empty_seen, b>>

NextRemove == RemoveStep

SpecRemove == InitRemove /\ [][NextRemove]_vars


---------------------------------------------------------------------------
(* Claims *)

RECURSIVE SumSeq(_)
SumSeq(q) == IF q = <<>> THEN 0 ELSE Head(q) + SumSeq(Tail(q))

\* The rows of the world whose name is the given country.
PolygonsOf(name) == {c \in 1..Len(world) : world[c].country = name}

IntersectsCountry(g, name) ==
    \E c \in PolygonsOf(name) : Intersects(g, world[c].geometry)

\* C1: when a country has been prepped, every hexagon of its hexagon set
\* that intersects the country appears exactly once in the output document,
\* tagged with the country, and no hexagon appears in two records.
C1Claim ==
    pc = "prepped" =>
        LET out == files[output_hexagon_path]
        IN /\ \A p \in 1..Len(hexagons) :
                IntersectsCountry(hexagons[p].geometry, country_name) =>
                    /\ Cardinality({n \in 1..Len(out) : out[n].geometry = hexagons[p].geometry}) = 1
                    /\ \E n \in 1..Len(out) :
                         /\ out[n].geometry = hexagons[p].geometry
                         /\ out[n].country = country_name
           /\ \A m, n \in 1..Len(out) : out[m].geometry = out[n].geometry => m = n

\* C2: remove_extra_hexagons returns exactly the features whose country
\* equals the target, in their original order and unchanged.
C2Theorem ==
    pc = "removed" =>
        final_hexagons =
            SelectSeq(files[output_hexagon_path], LAMBDA f : f.country = country_name_clean)

\* C2's case: two equal features of another country are removed, a feature
\* of the target between them is kept.
C2Witness ==
    /\ pc = "removed"
    /\ Len(files[output_hexagon_path]) = 3
    /\ files[output_hexagon_path][1] = files[output_hexagon_path][3]
    /\ files[output_hexagon_path][1].country # country_name_clean
    /\ files[output_hexagon_path][2].country = country_name_clean
    /\ final_hexagons = <<files[output_hexagon_path][2]>>

PointsWithin(points, g) == {k \in 1..Len(points) : Within(points[k], g)}

PointsInSomeHexagon(points, frame) ==
    {k \in 1..Len(points) : \E p \in 1..Len(frame) : Within(points[k], frame[p].geometry)}

\* C3: after the counting step every hexagon's theo_turbines and theo_pv
\* equal the number of that technology's points strictly within it (0 when
\* there is none), and the counts of all hexagons add up to the number of
\* points that lie within some hexagon.
C3Theorem ==
    pc \in {"combined", "combined_loop"} =>
        /\ \A p \in 1..Len(hex) :
             /\ hex[p].theo_turbines = Cardinality(PointsWithin(wind_points, hex[p].geometry))
             /\ hex[p].theo_pv = Cardinality(PointsWithin(pv_points, hex[p].geometry))
        /\ SumSeq([p \in 1..Len(hex) |-> hex[p].theo_turbines])
             = Cardinality(PointsInSomeHexagon(wind_points, hex))
        /\ SumSeq([p \in 1..Len(hex) |-> hex[p].theo_pv])
             = Cardinality(PointsInSomeHexagon(pv_points, hex))

\* C3's case: one hexagon holds two turbines, another holds none and has
\* count 0, and a pv point lies outside every hexagon.
C3Witness ==
    /\ pc = "combined"
    /\ Len(hex) = 2
    /\ hex[1].theo_turbines = 2
    /\ hex[2].theo_turbines = 0
    /\ \E k \in 1..Len(pv_points) : pv_points[k] = Outside
    /\ hex[1].theo_pv = 0 /\ hex[2].theo_pv = 0

HexagonsAt(frame, g, name) ==
    {n \in 1..Len(frame) : frame[n].geometry = g /\ frame[n].country = name}

WithoutCountry(r) ==
    [index |-> r.index, geometry |-> r.geometry,
     theo_turbines |-> r.theo_turbines, theo_pv |-> r.theo_pv]

\* C4: assign_country outputs exactly one record for each (hexagon, country)
\* pair whose geometries intersect and none for any other pair, each with the
\* hexagon's columns unchanged; a hexagon on the border of two countries has
\* exactly two records.
C4Theorem ==
    pc = "assigned" =>
        /\ \A p \in 1..Len(hexagons) : \A c \in 1..Len(world) :
             Cardinality({n \in 1..Len(hexagons_with_country) :
                            /\ WithoutCountry(hexagons_with_country[n]) = hexagons[p]
                            /\ hexagons_with_country[n].country = world[c].country})
               = IF Intersects(hexagons[p].geometry, world[c].geometry) THEN 1 ELSE 0
        /\ \A n \in 1..Len(hexagons_with_country) :
             \E p \in 1..Len(hexagons) : WithoutCountry(hexagons_with_country[n]) = hexagons[p]
        /\ \A p \in 1..Len(hexagons) :
             Cardinality({c \in 1..Len(world) : Intersects(hexagons[p].geometry, world[c].geometry)}) = 2
               => Cardinality({n \in 1..Len(hexagons_with_country) :
                                 hexagons_with_country[n].geometry = hexagons[p].geometry}) = 2

\* C4's case: a hexagon that intersects both countries has two records, and
\* a hexagon that intersects none has no record.
C4Witness ==
    /\ pc = "assigned"
    /\ Len(hexagons) = 2
    /\ Len(hexagons_with_country) = 2
    /\ hexagons_with_country[1].country = Togo
    /\ hexagons_with_country[2].country = EqGuinea
    /\ hexagons_with_country[1].geometry = hexagons_with_country[2].geometry
    /\ hexagons_with_country[1].theo_turbines + hexagons_with_country[1].theo_pv = 1

\* The locations that are the shared edge of two hexagons of the frame.
OnSharedBoundary(x, frame) ==
    \E p, q \in 1..Len(frame) :
        /\ p # q
        /\ frame[p].geometry.hi = x
        /\ frame[q].geometry.lo = x

\* The hexagons in which the counting step counts the k-th point.
CountedIn(points, frame, k) ==
    LET joined == sjoin_left(points, frame, "within")
    IN {n \in 1..Len(joined) : joined[n].point = k /\ joined[n].index # None}

\* C5: a placement point on the boundary shared by two adjacent hexagons is
\* counted in exactly one hexagon.
C5Claim ==
    pc = "combined" =>
        \A k \in 1..Len(wind_points) :
            OnSharedBoundary(wind_points[k], hex) =>
                /\ Cardinality(CountedIn(wind_points, hex, k)) = 1
                /\ SumSeq([p \in 1..Len(hex) |-> hex[p].theo_turbines]) >= 1

\* C6: update_hexagons writes nothing when the collection it is given is
\* empty; it emits the diagnostic instead.
C6Claim ==
    last_update.empty => (~last_update.wrote /\ last_update.diagnostic)

\* C7: an empty hexagon set of a country ends in no fault: the diagnostic is
\* reported, no output is written for the country and the run goes on.
C7Claim ==
    /\ ~(pc = "fault" /\ i \in empty_seen)
    /\ pc = "done" => \A k \in empty_seen : \A w \in written : w.iter # k

\* C8: the output document of the k-th country is named with the k-th ISO
\* code.
C8Claim ==
    pc \in {"named", "assigned", "prepped"} =>
        output_hexagon_path = hexagons_with_country_path(isocodes[i])

\* C9: no file written while processing one country is written again while
\* processing another country.
C9Claim ==
    \A w1, w2 \in written :
        w1.path = w2.path => country_names[w1.iter] = country_names[w2.iter]


---------------------------------------------------------------------------
(* The exclusion drivers: prep_before_spider.py (its main block and        *)
(* calculating_exclusions) and Inputs_Glaes/workflow.py.  b is a record:   *)
(*   driver     which script runs                                          *)
(*   countries  the country names it loops over                            *)
(*   hydro_arg  how --hydro was given on the command line                  *)
(*   env        workflow.py only: do the files it names exist              *)
(*   pc, i      position of the script and of its for loop                 *)
(*   staged     the files the staging step has written                     *)
(*   written    every write so far: [path, iter]                           *)
(*   config_name  the config template chosen (prep_before_spider)          *)
(*   calls      the engine calls issued for the current country            *)
(*   k          the next call of the driver's sequence                     *)

HydroArgs == {"omitted", "bare", "True", "False"}

\* argparse: --hydro with nargs='?', default=False, type=bool.  Omitted it is
\* False, given bare it is None, given a value it is bool(value), which is
\* True for every non-empty string.
parse_hydro(arg) ==
    CASE arg = "omitted" -> FALSE
      [] arg = "bare" -> FALSE
      [] OTHER -> TRUE

\* Line 139: the config template of the run.
config_name(hydro) ==
    IF hydro THEN "Country_config_hydro.yml" ELSE "Country_config.yml"

glaes_data(stem, suffix) == Path("glaes/glaes/data/", stem, suffix)
spider_prep_data(stem, suffix) == Path("ccg-spider/prep/data/", stem, suffix)
glaes_processed(stem, suffix) == Path("inputs_glaes/processed/", stem, suffix)

\* workflow.py: data_path + f'{country_name}...' and output_dir + f'...',
\* the directory and the file name put together without a separator.
workflow_data(stem, suffix) == Path("Inputs_Glaes/data", stem, suffix)
workflow_processed(stem, suffix) == Path("Inputs_Glaes/processed", stem, suffix)

\* prep_before_spider.py, lines 208-276: the files of the first prep step.
StagedFiles(clean) ==
    {glaes_data(clean, "_EPSG.pkl"), glaes_data(clean, ".geojson"),
     glaes_data(clean, "_buff.geojson"), glaes_data(clean, "_oceans.geojson"),
     spider_prep_data(clean, "_oceans.gpkg"),
     spider_prep_data(clean, "_waterbodies.gpkg"),
     spider_prep_data(clean, "_roads.gpkg"),
     spider_prep_data(clean, "_waterways.gpkg"),
     spider_prep_data(clean, ".gpkg"), glaes_data(clean, "_CLC.tif")}

\* One engine call: the method, the file it reads (or <<>>), the file it
\* writes (or <<>>), and its value= or buffer= argument (0: none).
Call(op, reads, writes, arg) == [op |-> op, reads |-> reads, writes |-> writes, arg |-> arg]

\* prep_before_spider.calculating_exclusions, lines 63-91.
calculating_exclusions(name) ==
    << Call("ExclusionCalculator", glaes_data(name, ".geojson"), <<>>, 0),
       Call("excludeVectorType", glaes_data(name, "_oceans.geojson"), <<>>, 250),
       Call("excludeRasterType", glaes_data(name, "_CLC.tif"), <<>>, 90),
       Call("excludeRasterType", glaes_data(name, "_CLC.tif"), <<>>, 50),
       Call("excludeRasterType", glaes_data(name, "_CLC.tif"), <<>>, 80),
       Call("save", <<>>, glaes_processed(name, "_wind_exclusions.tif"), 0),
       Call("distributeItems", <<>>, glaes_processed(name, "_turbine_placements.shp"), 0),
       Call("excludeRasterType", glaes_data(name, "_CLC.tif"), <<>>, 40),
       Call("save", <<>>, glaes_processed(name, "_pv_exclusions.tif"), 0),
       Call("distributeItems", <<>>, glaes_processed(name, "_pv_placements.shp"), 0) >>

\* Inputs_Glaes/workflow.py, lines 52-106.
workflow_exclusions(name) ==
    << Call("ExclusionCalculator", workflow_data(name, ".geojson"), <<>>, 0),
       Call("excludeVectorType", workflow_data(name, "_oceans.geojson"), <<>>, 250),
       Call("excludeVectorType", workflow_data(name, "_protected_areas.geojson"), <<>>, 250),
       Call("excludeRasterType", workflow_data(name, "_CLC.tif"), <<>>, 90),
       Call("excludeRasterType", workflow_data(name, "_CLC.tif"), <<>>, 50),
       Call("excludeRasterType", workflow_data(name, "_CLC.tif"), <<>>, 80),
       Call("save", <<>>, workflow_processed(name, "_wind_exclusions.tif"), 0),
       Call("distributeItems", <<>>, workflow_processed(name, "_turbine_placements_4MW.shp"), 0),
       Call("excludeRasterType", workflow_data(name, "_CLC.tif"), <<>>, 40),
       Call("save", <<>>, workflow_processed(name, "_pv_exclusions.tif"), 0),
       Call("distributeItems", <<>>, workflow_processed(name, "_pv_placements.shp"), 0) >>

b_country == b.countries[b.i]

b_program ==
    IF b.driver = "prep_before_spider"
    THEN calculating_exclusions(b_country)
    ELSE workflow_exclusions(b_country)

\* The pickle the exclusion step opens (prep_before_spider.py line 283,
\* workflow.py line 47).
b_epsg_path ==
    IF b.driver = "prep_before_spider"
    THEN glaes_data(b_country, "_EPSG.pkl")
    ELSE workflow_data(b_country, "_EPSG.pkl")

\* Does the file exist?  prep_before_spider.py reads what its staging step
\* wrote; workflow.py reads files that no step of its run writes.
b_exists(path) ==
    IF b.driver = "prep_before_spider" THEN path \in b.staged ELSE b.env

InitBefore ==
    /\ \E d \in {"prep_before_spider", "workflow"} :
         \E cs \in Batches :
           \E h \in HydroArgs :
             \E e \in BOOLEAN :
               /\ (d = "prep_before_spider" => e)
               /\ (d = "workflow" => h = "omitted")
               /\ b = [driver |-> d, countries |-> cs, hydro_arg |-> h, env |-> e,
                       config_name |-> IF d = "prep_before_spider"
                                       THEN config_name(parse_hydro(h)) ELSE "none",
                       pc |-> IF d = "prep_before_spider" THEN "hydro" ELSE "load_epsg",
                       i |-> 1, staged |-> {}, written |-> {}, calls |-> <<>>, k |-> 1]
    /\ country_names = <<Togo>>
    /\ isocodes = <<IsoOf(Togo)>>
    /\ pc = "off"
    /\ i = 1
    /\ iso_count = 0
    /\ hex = <<>>
    /\ wind_points = <<>>
    /\ pv_points = <<>>
    /\ hexagons = <<>>
    /\ hexagons_with_country = <<>>
    /\ final_hexagons = <<>>
    /\ output_hexagon_path = <<>>
    /\ files = <<>>
    /\ written = {}
    /\ last_update = NoUpdate
    /\ empty_seen = {}

\* prep_before_spider.py, lines 166-204: the optional hydropower step.
HydroPrep ==
    /\ b.pc = "hydro"
    /\ parse_hydro(b.hydro_arg)
    /\ b' = [b EXCEPT !.pc = "stage",
                      !.written = @ \cup {[path |-> spider_prep_data(<<>>, "hydropower_dams.gpkg"),
                                           iter |-> b.i]}]
    /\ UNCHANGED afterVars

SkipHydro ==
    /\ b.pc = "hydro"
    /\ ~parse_hydro(b.hydro_arg)
    /\ b' = [b EXCEPT !.pc = "stage"]
    /\ UNCHANGED afterVars

\* prep_before_spider.py, lines 208-276: the first prep step, every file
\* named with the cleaned country name.
Stage ==
    /\ b.pc = "stage"
    /\ b' = [b EXCEPT !.pc = "load_epsg",
                      !.staged = @ \cup StagedFiles(clean_country_name(b_country)),
                      !.written = @ \cup {[path |-> f, iter |-> b.i] :
                                            f \in StagedFiles(clean_country_name(b_country))}]
    /\ UNCHANGED afterVars

\* Load the pickled EPSG code for the country.
LoadEPSG ==
    /\ b.pc = "load_epsg"
    /\ b_exists(b_epsg_path)
    /\ b' = [b EXCEPT !.pc = "engine", !.calls = <<>>, !.k = 1]
    /\ UNCHANGED afterVars

\* open raises when the pickle is not there.
LoadEPSGFault ==
    /\ b.pc = "load_epsg"
    /\ ~b_exists(b_epsg_path)
    /\ b' = [b EXCEPT !.pc = "fault"]
    /\ UNCHANGED afterVars

\* The next call into the exclusion engine.
EngineCall ==
    /\ b.pc = "engine"
    /\ b.k <= Len(b_program)
    /\ b' = [b EXCEPT !.calls = Append(@, b_program[b.k]),
                      !.k = @ + 1,
                      !.written = IF b_program[b.k].writes = <<>> THEN @
                                  ELSE @ \cup {[path |-> b_program[b.k].writes, iter |-> b.i]}]
    /\ UNCHANGED afterVars

\* The exclusions and placements of the country are complete.
EngineDone ==
    /\ b.pc = "engine"
    /\ b.k > Len(b_program)
    /\ b' = [b EXCEPT !.pc = "excluded"]
    /\ UNCHANGED afterVars

\* prep_before_spider.py, lines 291-297: the country's SPIDER config.
WriteConfig ==
    /\ b.pc = "excluded"
    /\ b.driver = "prep_before_spider"
    /\ b' = [b EXCEPT !.pc = "configured",
                      !.written = @ \cup {[path |-> Path("ccg-spider/prep/",
                                                         clean_country_name(b_country),
                                                         "_config.yml"),
                                           iter |-> b.i]}]
    /\ UNCHANGED afterVars

\* The next country of the for loop, or the end of the script.
BeforeNextCountry ==
    /\ \/ b.pc = "configured"
       \/ b.pc = "excluded" /\ b.driver = "workflow"
    /\ IF b.i < Len(b.countries)
       THEN b' = [b EXCEPT !.i = @ + 1,
                           !.pc = IF b.driver = "prep_before_spider" THEN "hydro" ELSE "load_epsg"]
       ELSE b' = [b EXCEPT !.pc = "done"]
    /\ UNCHANGED afterVars

NextBefore ==
    \/ HydroPrep
    \/ SkipHydro
    \/ Stage
    \/ LoadEPSG
    \/ LoadEPSGFault
    \/ EngineCall
    \/ EngineDone
    \/ WriteConfig
    \/ BeforeNextCountry

SpecBefore == InitBefore /\ [][NextBefore]_vars

\* What an engine call is, in the words of the drivers' progress messages.
Kind(call) ==
    CASE call.op = "ExclusionCalculator" -> "initialise"
      [] call.op = "excludeVectorType" /\ call.reads[Len(call.reads)] = "_oceans.geojson"
           -> "coastal buffer"
      [] call.op = "excludeVectorType" /\ call.reads[Len(call.reads)] = "_protected_areas.geojson"
           -> "protected areas"
      [] call.op = "excludeRasterType" /\ call.arg = 90 -> "wetland"
      [] call.op = "excludeRasterType" /\ call.arg = 50 -> "built-up"
      [] call.op = "excludeRasterType" /\ call.arg = 80 -> "water bodies"
      [] call.op = "excludeRasterType" /\ call.arg = 40 -> "agriculture"
      [] call.op = "distributeItems" /\ call.writes[Len(call.writes)] = "_pv_placements.shp"
           -> "PV placement"
      [] call.op = "distributeItems" -> "turbine placement"
      [] OTHER -> "save"

\* The calls issued for the current country, the saves of the exclusion
\* rasters left out.
IssuedOrder ==
    LET kinds == [n \in 1..Len(b.calls) |-> Kind(b.calls[n])]
    IN SelectSeq(kinds, LAMBDA x : x # "save")

RequiredOrder ==
    <<"initialise", "coastal buffer", "protected areas", "wetland", "built-up",
      "water bodies", "turbine placement", "agriculture", "PV placement">>

Exclusions == {"coastal buffer", "protected areas", "wetland", "built-up",
               "water bodies", "agriculture"}

\* The exclusions applied before the placement of the given kind.
SeenBy(placement) ==
    {IssuedOrder[m] : m \in {n \in 1..Len(IssuedOrder) :
                               /\ IssuedOrder[n] \in Exclusions
                               /\ \E q \in 1..Len(IssuedOrder) :
                                    n < q /\ IssuedOrder[q] = placement}}

\* C10: for every country the driver issues the engine calls in the required
\* order, none omitted; turbine placement never sees the agriculture
\* exclusion and PV placement sees all six exclusions.
C10Claim ==
    b.pc = "excluded" =>
        /\ IssuedOrder = RequiredOrder
        /\ "agriculture" \notin SeenBy("turbine placement")
        /\ SeenBy("PV placement") = Exclusions

---------------------------------------------------------------------------
(* prep_after_spider.py without ISO codes *)

\* C11: a run of prep_after_spider that was given no ISO codes stops at the
\* usage error before any processing: it never enters the country loop, and
\* no file has been read into the frames or written, for any country.
C11Theorem ==
    isocodes = <<>> =>
        /\ pc \in {"start", "usage_error"}
        /\ i = 1
        /\ hex = <<>> /\ wind_points = <<>> /\ pv_points = <<>>
        /\ hexagons = <<>>
        /\ files = <<>> /\ written = {}
        /\ last_update = NoUpdate

C11Witness == isocodes = <<>> /\ pc = "usage_error"


---------------------------------------------------------------------------
(* Config templating: replace_country and the loop of make_spider_configs.py *)

MaxChunks == 2      \* pieces a string leaf of the template is made of
MaxDepth == 2       \* containers nested around a leaf of the template

Guinea == <<"G", "u", "i", "n", "e", "a">>
GuineaBissau == <<"G", "u", "i", "n", "e", "a", "-", "B", "i", "s", "s", "a", "u">>
CoteDIvoire == <<"C", "ô", "t", "e", " ", "d", "'", "I", "v", "o", "i", "r", "e">>

\* The country lists a run of the script is given.
ConfigBatches ==
    {<<Togo>>, <<CoteDIvoire, Togo>>, <<Guinea, GuineaBissau>>,
     <<GuineaBissau, Guinea>>, <<EqGuinea, Guinea>>}

\* The literal "Country".
Placeholder == <<"C", "o", "u", "n", "t", "r", "y">>

\* s[k..] starts with sub.
StartsWith(s, sub) == Len(sub) <= Len(s) /\ SubSeq(s, 1, Len(sub)) = sub

\* str.replace(old, new) for a non-empty old: the occurrences are taken from
\* the left and do not overlap.
RECURSIVE str_replace(_, _, _)
str_replace(s, old, new) ==
    IF s = <<>> THEN <<>>
    ELSE IF StartsWith(s, old)
         THEN new \o str_replace(SubSeq(s, Len(old) + 1, Len(s)), old, new)
         ELSE <<Head(s)>> \o str_replace(Tail(s), old, new)

\* The string case with the two calls in the other order.
replace_str_raw(text, country) == unidecode(str_replace(text, Placeholder, country))

\* The string case: unidecode(node).replace("Country", country)
replace_str(text, country) == str_replace(unidecode(text), Placeholder, country)

\* A document is a tree of nodes:
\*   [kind |-> "dict", entries |-> sequence of [key, value]]
\*   [kind |-> "list", items |-> sequence of nodes]
\*   [kind |-> "str", text |-> characters]
\*   [kind |-> "scalar", type, repr]         (an int, a bool, a null)
Str(text) == [kind |-> "str", text |-> text]
List(items) == [kind |-> "list", items |-> items]
Dict(entries) == [kind |-> "dict", entries |-> entries]
Entry(key, value) == [key |-> key, value |-> value]

RECURSIVE replace_country(_, _)
replace_country(node, country) ==
    CASE node.kind = "dict" ->
            Dict([k \in DOMAIN node.entries |->
                    Entry(node.entries[k].key,
                          replace_country(node.entries[k].value, country))])
      [] node.kind = "list" ->
            List([k \in DOMAIN node.items |-> replace_country(node.items[k], country)])
      [] node.kind = "str" -> Str(replace_str(node.text, country))
      [] OTHER -> node

\* The caller's template after a call that had substituted in place.
template_after_inplace(node, country) == replace_country(node, country)

\* The caller's template after replace_country(node, country): the
\* comprehensions build new containers and str.replace a new string, so the
\* argument is as it was.
template_after(node, country) == node

\* The pieces of the template's string leaves: the placeholder, the
\* placeholder written with an accent, the placeholder in lower case and a
\* separator.
Chunks ==
    {Placeholder, <<"C", "ô", "u", "n", "t", "r", "y">>,
     <<"c", "o", "u", "n", "t", "r", "y">>, <<"_">>}

StrLeaves ==
    {Str(Flatten(cs)) : cs \in UNION {[1..n -> Chunks] : n \in 0..MaxChunks}}

Scalars ==
    {[kind |-> "scalar", type |-> "int", repr |-> "7"],
     [kind |-> "scalar", type |-> "bool", repr |-> "true"]}

Leaves == StrLeaves \cup Scalars

\* What stands next to the nested child in a container.
StrSibling == Str(Placeholder \o <<"_">>)
NullSibling == [kind |-> "scalar", type |-> "null", repr |-> "null"]

\* The containers around a child x: a list of it, a list of a string and
\* it, a mapping to it, a mapping (one key spelt like the placeholder) to it
\* and to a null.
Around(x) ==
    {List(<<x>>), List(<<StrSibling, x>>), Dict(<<Entry(<<"k">>, x)>>),
     Dict(<<Entry(Placeholder, x), Entry(<<"s">>, NullSibling)>>)}

RECURSIVE Docs(_)
Docs(d) ==
    IF d = 0 THEN Leaves
    ELSE Leaves \cup UNION {Around(x) : x \in Docs(d - 1)}

\* prep_after_spider.py is not running.
AfterIdle ==
    /\ country_names = <<Togo>>
    /\ isocodes = <<IsoOf(Togo)>>
    /\ pc = "off"
    /\ i = 1
    /\ iso_count = 0
    /\ hex = <<>>
    /\ wind_points = <<>>
    /\ pv_points = <<>>
    /\ hexagons = <<>>
    /\ hexagons_with_country = <<>>
    /\ final_hexagons = <<>>
    /\ output_hexagon_path = <<>>
    /\ files = <<>>
    /\ written = {}
    /\ last_update = NoUpdate
    /\ empty_seen = {}

\* State of make_spider_configs.py, in b:
\*   data           the template as the script holds it
\*   loaded         the template as it was loaded
\*   country_names  the list of line 19
\*   i              position of the loop
\*   configs        the files written, in order
InitConfig ==
    /\ AfterIdle
    /\ \E data \in Docs(MaxDepth), names \in ConfigBatches :
         b = [pc |-> "loop", data |-> data, loaded |-> data,
              country_names |-> names, i |-> 1, configs |-> <<>>]

\* Lines 45-59: one pass of the loop.
MakeConfig ==
    /\ b.pc = "loop"
    /\ b.i <= Len(b.country_names)
    /\ LET country == b.country_names[b.i]
           clean == CleanName(country)
           output_file == Path("Inputs_Spider/configs/", clean, "_config.yml")
           current_data == replace_country(b.data, clean)
       IN  b' = [b EXCEPT
                   !.data = template_after(b.data, clean),
                   !.configs = Append(@, [file |-> output_file,
                                          country |-> country,
                                          given |-> b.data,
                                          doc |-> current_data]),
                   !.i = @ + 1]
    /\ UNCHANGED afterVars

\* Line 61: the loop is over.
AllCreated ==
    /\ b.pc = "loop"
    /\ b.i > Len(b.country_names)
    /\ b' = [b EXCEPT !.pc = "done"]
    /\ UNCHANGED afterVars

NextConfig == MakeConfig \/ AllCreated

SpecConfig == InitConfig /\ [][NextConfig]_vars

\* sub occurs in s.
Contains(s, sub) ==
    \E k \in 1..(Len(s) - Len(sub) + 1) : SubSeq(s, k, k + Len(sub) - 1) = sub

\* out has the structure of in: the same containers with the same lengths
\* and keys, a string where in has a string, and in's own leaf where in has
\* a leaf that is neither a string nor a container.
RECURSIVE SameButStrings(_, _)
SameButStrings(in, out) ==
    /\ out.kind = in.kind
    /\ CASE in.kind = "dict" ->
              /\ DOMAIN out.entries = DOMAIN in.entries
              /\ \A k \in DOMAIN in.entries :
                   /\ out.entries[k].key = in.entries[k].key
                   /\ SameButStrings(in.entries[k].value, out.entries[k].value)
         [] in.kind = "list" ->
              /\ DOMAIN out.items = DOMAIN in.items
              /\ \A k \in DOMAIN in.items : SameButStrings(in.items[k], out.items[k])
         [] in.kind = "str" -> TRUE
         [] OTHER -> out = in

\* The texts of the string leaves of a document.
RECURSIVE StringLeaves(_)
StringLeaves(node) ==
    CASE node.kind = "dict" ->
            UNION {StringLeaves(node.entries[k].value) : k \in DOMAIN node.entries}
      [] node.kind = "list" ->
            UNION {StringLeaves(node.items[k]) : k \in DOMAIN node.items}
      [] node.kind = "str" -> {node.text}
      [] OTHER -> {}

RECURSIVE Depth(_)
Depth(node) ==
    CASE node.kind = "dict" /\ node.entries = <<>> -> 1
      [] node.kind = "dict" ->
            1 + Depth(node.entries[1].value)
      [] node.kind = "list" /\ node.items = <<>> -> 1
      [] node.kind = "list" -> 1 + Depth(node.items[Len(node.items)])
      [] OTHER -> 0

\* C12: whatever template replace_country is given, nested through
\* mappings and sequences, and whatever cleaned country identifier, the
\* document it returns has the template's structure, no string leaf of it
\* contains "Country", and every leaf that is neither a string nor a
\* container is the template's.
C12Theorem ==
    b.pc \in {"loop", "done"} =>
        \A k \in DOMAIN b.configs :
            /\ SameButStrings(b.configs[k].given, b.configs[k].doc)
            /\ \A text \in StringLeaves(b.configs[k].doc) : ~Contains(text, Placeholder)

\* A template nested as deep as the bound allows, with an accented
\* placeholder in a string leaf and a scalar leaf, has been substituted.
C12Witness ==
    /\ b.pc = "done"
    /\ \E k \in DOMAIN b.configs :
         /\ Depth(b.configs[k].given) = MaxDepth
         /\ \E text \in StringLeaves(b.configs[k].given) :
              ~Contains(text, Placeholder) /\ Contains(unidecode(text), Placeholder)
         /\ b.configs[k].given.kind = "dict"
         /\ b.configs[k].given.entries[Len(b.configs[k].given.entries)].value.kind = "scalar"


\* The cleaned identifier of the k-th country of the run.
CleanOf(k) == CleanName(b.country_names[k])

\* Some string leaf of the document contains the identifier.
Mentions(doc, ident) == \E text \in StringLeaves(doc) : Contains(text, ident)

\* C13 as stated: every config written equals the substitution of its own
\* country's cleaned identifier into the template as loaded, and contains no
\* identifier of a country processed earlier in the run.
C13Claim ==
    b.pc \in {"loop", "done"} =>
        \A k \in DOMAIN b.configs :
            /\ b.configs[k].doc = replace_country(b.loaded, CleanOf(k))
            /\ \A j \in 1..(k - 1) : ~Mentions(b.configs[k].doc, CleanOf(j))

\* C13, amended: replace_country leaves the template it is given as it was,
\* so every config written equals the substitution of its own country's
\* cleaned identifier into the template as loaded; it contains the identifier
\* of a country processed earlier only when that identifier is part of its
\* own (Guinea, within GuineaBissau).
C13Theorem ==
    b.pc \in {"loop", "done"} =>
        /\ b.data = b.loaded
        /\ \A k \in DOMAIN b.configs :
            /\ b.configs[k].doc = replace_country(b.loaded, CleanOf(k))
            /\ \A j \in 1..(k - 1) :
                 Mentions(b.configs[k].doc, CleanOf(j))
                    => Contains(CleanOf(k), CleanOf(j))

\* Two countries have been processed from a template that holds the
\* placeholder, the first one's identifier being part of the second's.
C13Witness ==
    /\ b.pc = "done"
    /\ Len(b.configs) = 2
    /\ Mentions(b.loaded, Placeholder)
    /\ Mentions(b.configs[2].doc, CleanOf(1))
    /\ b.configs[2].doc # b.configs[1].doc


---------------------------------------------------------------------------
(* Country-name normalization on its own *)

MaxName == 3        \* characters of a free-text country name

\* The characters of a free-text name: a letter, an accented letter, a
\* space, a period, an apostrophe and an acute accent.
NameChars == {"a", "é", " ", ".", "'", "´"}

FreeNames == UNION {[1..n -> NameChars] : n \in 0..MaxName}

\* Every country the scripts' country_names lists name.
ListedNames ==
    {<<"B", "e", "n", "i", "n">>, <<"C", "a", "m", "e", "r", "o", "o", "n">>,
     <<"C", "o", "n", "g", "o">>, CoteDIvoire, EqGuinea,
     <<"E", "r", "i", "t", "r", "e", "a">>, <<"G", "a", "b", "o", "n">>,
     <<"G", "a", "m", "b", "i", "a">>, <<"G", "h", "a", "n", "a">>, Guinea,
     GuineaBissau, <<"L", "i", "b", "e", "r", "i", "a">>,
     <<"L", "i", "b", "y", "a">>,
     <<"M", "a", "d", "a", "g", "a", "s", "c", "a", "r">>,
     <<"M", "a", "u", "r", "i", "t", "i", "u", "s">>,
     <<"M", "o", "z", "a", "m", "b", "i", "q", "u", "e">>,
     <<"N", "i", "g", "e", "r", "i", "a">>, <<"N", "i", "g", "e", "r">>,
     <<"S", "ã", "o", " ", "T", "o", "m", "é", " ", "a", "n", "d", " ", "P", "r", "i", "n", "c", "i", "p", "e">>,
     <<"S", "e", "n", "e", "g", "a", "l">>,
     <<"S", "e", "y", "c", "h", "e", "l", "l", "e", "s">>,
     <<"S", "i", "e", "r", "r", "a", " ", "L", "e", "o", "n", "e">>,
     <<"S", "o", "m", "a", "l", "i", "a">>, <<"S", "u", "d", "a", "n">>,
     <<"T", "a", "n", "z", "a", "n", "i", "a">>, Togo,
     <<"T", "u", "n", "i", "s", "i", "a">>,
     <<"N", "e", "t", "h", "e", "r", "l", "a", "n", "d", "s">>,
     <<"A", "l", "g", "e", "r", "i", "a">>, <<"A", "n", "g", "o", "l", "a">>,
     <<"D", "e", "m", ".", " ", "R", "e", "p", ".", " ", "C", "o", "n", "g", "o">>,
     <<"C", "a", "b", "o", " ", "V", "e", "r", "d", "e">>,
     <<"D", "j", "i", "b", "o", "u", "t", "i">>, <<"E", "g", "y", "p", "t">>,
     <<"K", "e", "n", "y", "a">>,
     <<"M", "a", "u", "r", "i", "t", "a", "n", "i", "a">>,
     <<"M", "o", "r", "o", "c", "c", "o">>,
     <<"N", "a", "m", "i", "b", "i", "a">>,
     <<"S", "o", "u", "t", "h", " ", "A", "f", "r", "i", "c", "a">>}

\* State of the normalization, in b:
\*   name, other   two country names
\*   once          the cleaned names, in the same order
\*   twice         the cleaned name of name, cleaned again
InitClean ==
    /\ AfterIdle
    /\ \E name \in FreeNames \cup ListedNames, other \in ListedNames :
         b = [pc |-> "names", name |-> name, other |-> other,
              once |-> <<>>, twice |-> <<>>]

\* The cleaning of the country loop, for both names.
Clean ==
    /\ b.pc = "names"
    /\ b' = [b EXCEPT !.pc = "cleaned",
                      !.once = <<CleanName(b.name), CleanName(b.other)>>]
    /\ UNCHANGED afterVars

\* The cleaning applied to the cleaned name.
CleanAgain ==
    /\ b.pc = "cleaned"
    /\ b' = [b EXCEPT !.pc = "cleaned_twice", !.twice = CleanName(b.once[1])]
    /\ UNCHANGED afterVars

NextClean == Clean \/ CleanAgain

SpecClean == InitClean /\ [][NextClean]_vars

\* C14: cleaning a cleaned name returns it unchanged, and a cleaned name has
\* no space, period or apostrophe in it.
C14Theorem ==
    b.pc = "cleaned_twice" =>
        /\ b.twice = b.once[1]
        /\ \A k \in DOMAIN b.once[1] : b.once[1][k] \notin {" ", ".", "'"}

\* A name whose transliteration brings in an apostrophe, beside characters
\* the cleaning deletes, has been cleaned twice.
C14Witness ==
    /\ b.pc = "cleaned_twice"
    /\ \E j, k \in DOMAIN b.name : b.name[j] = "´" /\ b.name[k] \in {" ", ".", "'"}
    /\ b.once[1] # <<>>

\* C15: two different countries of the scripts' lists never get the same
\* cleaned identifier.
C15Theorem ==
    (b.pc = "cleaned" /\ b.name \in ListedNames /\ b.name # b.other) =>
        b.once[1] # b.once[2]

\* Two different listed countries, one's name the end of the other's, have
\* been cleaned.
C15Witness ==
    /\ b.pc = "cleaned"
    /\ b.name \in ListedNames /\ b.name # b.other
    /\ Len(b.other) < Len(b.name)
    /\ SubSeq(b.name, Len(b.name) - Len(b.other) + 1, Len(b.name)) = b.other
    /\ b.once[1] # b.name


---------------------------------------------------------------------------
(* The UTM zone of a country: the EPSG formula *)

\* Coordinates are whole degrees.  The representative points a run can be
\* given: every fifth latitude and every longitude, to a margin beyond the
\* range of geographic coordinates.
Latitudes == {5 * k : k \in -20..20}
Longitudes == -192..192

InRange(latitude, longitude) ==
    /\ -90 <= latitude /\ latitude <= 90
    /\ -180 <= longitude /\ longitude <= 180

\* The largest integer that is at most n / d, for d > 0.
Floor(n, d) == IF n >= 0 THEN n \div d ELSE -(((-n) + d - 1) \div d)

\* int(n / d): the fraction is cut off.
truncate(n, d) == IF n >= 0 THEN n \div d ELSE -((-n) \div d)

\* round(n / d, 0) of Python 3: to the nearest integer, a half to the even
\* neighbour.
round(n, d) ==
    LET q == Floor(n, d)
        r == n - q * d
    IN  IF 2 * r < d THEN q
        ELSE IF 2 * r > d THEN q + 1
        ELSE IF q % 2 = 0 THEN q ELSE q + 1

\* The formula with the fractions cut off instead of rounded.
epsg_truncating(latitude, longitude) ==
    32700 - truncate(45 + latitude, 90) * 100 + truncate(183 + longitude, 6)

\* EPSG = int(32700 - round((45 + latitude) / 90, 0) * 100
\*            + round((183 + longitude) / 6, 0))
epsg(latitude, longitude) ==
    32700 - round(45 + latitude, 90) * 100 + round(183 + longitude, 6)

\* The codes of the UTM zones, north and south.
UTMCodes == (32601..32660) \cup (32701..32760)

\* State of the zone selection, in b:
\*   latitude, longitude   the representative point
\*   EPSG                  the local EPSG (None before line 219)
\*   pickled               what was dumped to <country>_EPSG.pkl
\*   to_crs                the codes to_crs was called with
InitEPSG ==
    /\ AfterIdle
    /\ \E latitude \in Latitudes, longitude \in Longitudes :
         b = [pc |-> "point", latitude |-> latitude, longitude |-> longitude,
              EPSG |-> None, pickled |-> None, to_crs |-> <<>>]

\* Lines 217-221: compute the code and dump it.
ComputeEPSG ==
    /\ b.pc = "point"
    /\ LET EPSG == epsg(b.latitude, b.longitude)
       IN  b' = [b EXCEPT !.pc = "pickled", !.EPSG = Some(EPSG),
                          !.pickled = Some(EPSG)]
    /\ UNCHANGED afterVars

\* Line 224: country.to_crs(epsg=EPSG).  A code that is no UTM zone's may
\* name another reference system or none: the call then goes through or
\* raises.
Reproject ==
    /\ b.pc = "pickled"
    /\ \E outcome \in {"reprojected", "fault"} :
         /\ (b.EPSG[1] \in UTMCodes => outcome = "reprojected")
         /\ b' = [b EXCEPT !.pc = outcome, !.to_crs = Append(@, b.EPSG[1])]
    /\ UNCHANGED afterVars

NextEPSG == ComputeEPSG \/ Reproject

SpecEPSG == InitEPSG /\ [][NextEPSG]_vars

\* The 6-degree band of a longitude: floor((longitude + 180) / 6) + 1,
\* the eastern end of the range counted into band 60.
Band(longitude) ==
    LET z == Floor(longitude + 180, 6) + 1 IN IF z = 61 THEN 60 ELSE z

\* C16 as stated: for every point of the geographic range the code computed
\* is 32600 + z in the northern hemisphere and 32700 + z in the southern one,
\* z being the band of the longitude, band edges included (a point on the
\* equator may be given either hemisphere).
C16Claim ==
    (b.pc # "point" /\ InRange(b.latitude, b.longitude)) =>
        /\ b.latitude > 0 => b.EPSG[1] = 32600 + Band(b.longitude)
        /\ b.latitude < 0 => b.EPSG[1] = 32700 + Band(b.longitude)
        /\ b.latitude = 0 => b.EPSG[1] \in {32600 + Band(b.longitude),
                                            32700 + Band(b.longitude)}

\* C17 as stated: the point at latitude 10, longitude 10 yields 32631.
C17Claim ==
    (b.pc # "point" /\ b.latitude = 10 /\ b.longitude = 10) => b.EPSG[1] = 32631

\* C17, amended: the selection is a function of the two coordinates alone
\* (what is dumped and what is used for the reprojection is the one code
\* computed), and the point at latitude 10, longitude 10 yields 32632.
C17Theorem ==
    /\ b.pc # "point" =>
         /\ b.pickled = b.EPSG
         /\ \A k \in DOMAIN b.to_crs : b.to_crs[k] = b.EPSG[1]
    /\ (b.pc # "point" /\ b.latitude = 10 /\ b.longitude = 10) => b.EPSG[1] = 32632

C17Witness ==
    b.pc = "reprojected" /\ b.latitude = 10 /\ b.longitude = 10

\* C18 as stated: for a point outside the geographic range the selection
\* ends in an error, and no code is computed, dumped or used to reproject.
C18Claim ==
    (b.pc # "point" /\ ~InRange(b.latitude, b.longitude)) =>
        /\ b.pc = "fault"
        /\ b.EPSG = None /\ b.pickled = None /\ b.to_crs = <<>>


---------------------------------------------------------------------------
(* The --hydro option of prep_before_spider.py *)

\* The hydropower step has run for the current country.
HydroRan ==
    [path |-> spider_prep_data(<<>>, "hydropower_dams.gpkg"), iter |-> b.i] \in b.written

\* C19 as stated: the hydropower step runs, and the hydro config template is
\* the one chosen, exactly when --hydro was given a true value; without the
\* option and with "--hydro False" the step is skipped, with "--hydro True"
\* it runs.
C19Claim ==
    (b.driver = "prep_before_spider" /\ b.pc = "stage") =>
        /\ HydroRan <=> b.hydro_arg = "True"
        /\ b.config_name = "Country_config_hydro.yml" <=> b.hydro_arg = "True"


---------------------------------------------------------------------------
(* The hydropower step of prep_before_spider.py on its own *)

MaxPlants == 2      \* records of hydro-power-plants.csv

\* A cell of the table as read_csv returns it: a number, NaN (an empty cell)
\* or a text that is no number.
Number(v) == [kind |-> "number", value |-> v]
NaN == [kind |-> "nan", value |-> 0]
Text == [kind |-> "text", value |-> 0]
Raised == [kind |-> "raise", value |-> 0]

\* pd.to_numeric for one cell: a text that is no number is NaN under
\* errors='coerce' and a ValueError under errors='raise'.
to_numeric(cell, errors) ==
    IF cell.kind = "text"
    THEN IF errors = "coerce" THEN NaN ELSE Raised
    ELSE cell

\* The capacity converted as the coordinates are.
capacity_to_numeric_coerce(cell) == to_numeric(cell, "coerce")

\* Line 183: pd.to_numeric(data['capacity'], errors='raise')
capacity_to_numeric(cell) == to_numeric(cell, "raise")

\* Lines 181-183 for one row.
row_to_numeric(row) ==
    [row EXCEPT !.lon = to_numeric(@, "coerce"),
                !.lat = to_numeric(@, "coerce"),
                !.capacity = capacity_to_numeric(@)]

\* Line 183 raises: some capacity could not be converted.
to_numeric_raises(data) ==
    \E k \in DOMAIN data : capacity_to_numeric(data[k].capacity) = Raised

\* A dropna whose result is the table it was given.
dropna_keep(data, column) == data

\* data.dropna(subset=[column]): the rows whose cell is not NaN.
dropna(data, column) == SelectSeq(data, LAMBDA row : row[column] # NaN)

\* Lines 186-190: the rows with coordinates and a head.
data_existing(data) == dropna(dropna(dropna(data, "lon"), "lat"), "head")

\* The records the table can hold; id is the row's position.
PlantRows(id) ==
    [id : {id}, lat : {Number(1), NaN}, lon : {Number(2), Text},
     capacity : {Number(5), NaN, Text}, head : {Number(9), NaN}]

PlantTables ==
    UNION {{t \in [1..n -> UNION {PlantRows(id) : id \in 1..n}] :
              \A k \in 1..n : t[k].id = k} : n \in 0..MaxPlants}

\* State of the step, in b:
\*   variant  the script the step belongs to
\*   csv    the table read at line 173
\*   data   the local data (the table after the conversions)
\*   gpkg   the rows written to hydropower_dams.gpkg (None: not written)
InitHydro ==
    /\ AfterIdle
    /\ \E csv \in PlantTables :
         b = [pc |-> "read", variant |-> "prep_before_spider", csv |-> csv,
              data |-> <<>>, gpkg |-> None]

\* Lines 173-183: read the table and convert the columns.
HydroConvert ==
    /\ b.pc = "read"
    /\ ~to_numeric_raises(b.csv)
    /\ b' = [b EXCEPT !.pc = "numeric",
                      !.data = [k \in DOMAIN b.csv |-> row_to_numeric(b.csv[k])]]
    /\ UNCHANGED afterVars

\* Line 183 raises ValueError: the run ends.
HydroConvertFault ==
    /\ b.pc = "read"
    /\ to_numeric_raises(b.csv)
    /\ b' = [b EXCEPT !.pc = "fault"]
    /\ UNCHANGED afterVars

\* Lines 186-200: drop the rows without coordinates or head and write the
\* layer.
HydroExport ==
    /\ b.pc = "numeric"
    /\ b' = [b EXCEPT !.pc = "exported", !.gpkg = Some(data_existing(b.data))]
    /\ UNCHANGED afterVars

NextHydro == HydroConvert \/ HydroConvertFault \/ HydroExport

SpecHydro == InitHydro /\ [][NextHydro]_vars

\* Some record of the table has a capacity that is no number.
UnparsableCapacity == \E k \in DOMAIN b.csv : b.csv[k].capacity = Text

\* C20: when some record of the table has a capacity that cannot be read as
\* a number, the step ends in an error and the GeoPackage is never written;
\* a record that is written carries the capacity of its record in the table,
\* which was not an unparsable one.
C20Theorem ==
    /\ UnparsableCapacity => (b.pc \in {"read", "fault"} /\ b.gpkg = None)
    /\ b.gpkg # None =>
         \A k \in DOMAIN b.gpkg[1] :
            LET row == b.gpkg[1][k] IN
              /\ b.csv[row.id].capacity # Text
              /\ row.capacity = b.csv[row.id].capacity

\* The step has ended in the error on a table that also holds a record fit
\* to be written, the unparsable capacity being that of a record the later
\* steps would have dropped.
C20Witness ==
    /\ b.pc = "fault"
    /\ \E j, k \in DOMAIN b.csv :
         /\ b.csv[j].capacity = Text /\ b.csv[j].lat = NaN
         /\ b.csv[k].capacity = Number(5) /\ b.csv[k].lat # NaN
         /\ b.csv[k].lon # Text /\ b.csv[k].head # NaN


---------------------------------------------------------------------------
(* The standalone hydropower scripts: hydropower_prep.py (variant          *)
(* "hydropower_prep") and hydropower_prep_EU.py (variant                   *)
(* "hydropower_prep_EU")                                                   *)

\* The records of the table hydropower_prep.py reads (East_E for 'East E',
\* North_N for 'North N', Fuel_Type for 'Fuel Type'; head and capacity are
\* the columns the script renames to these names); SNo is the row's position.
LaoRows(id) ==
    [id : {id}, East_E : {Number(2), NaN}, North_N : {Number(1)},
     Fuel_Type : {"Reservoir ", "Thermal"}, Status : {"Existing", "Planned"},
     capacity : {Number(5), Text}, head : {Number(9), NaN}]

\* The records of the table hydropower_prep_EU.py reads.
EURows(id) ==
    [id : {id}, lat : {Number(1)}, lon : {Number(2), Text},
     type : {"HDAM", "HPHS", "HROR"},
     capacity : {Number(5), Text}, head : {Number(9), NaN}]

VariantRows(variant, id) ==
    IF variant = "hydropower_prep" THEN LaoRows(id) ELSE EURows(id)

VariantTables(variant) ==
    UNION {{t \in [1..n -> UNION {VariantRows(variant, id) : id \in 1..n}] :
              \A k \in 1..n : t[k].id = k} : n \in 0..MaxPlants}

\* The coordinate columns made numeric with errors='coerce'
\* (hydropower_prep.py 40-41, hydropower_prep_EU.py 41-42).
coordinates_to_numeric(variant, row) ==
    IF variant = "hydropower_prep"
    THEN [row EXCEPT !.East_E = to_numeric(@, "coerce"),
                     !.North_N = to_numeric(@, "coerce")]
    ELSE [row EXCEPT !.lon = to_numeric(@, "coerce"),
                     !.lat = to_numeric(@, "coerce")]

\* The rows left by the dropna on the coordinates
\* (hydropower_prep.py 43, hydropower_prep_EU.py 53).
with_coordinates(variant, csv) ==
    LET numeric == [k \in DOMAIN csv |-> coordinates_to_numeric(variant, csv[k])]
    IN  IF variant = "hydropower_prep"
        THEN dropna(dropna(numeric, "East_E"), "North_N")
        ELSE dropna(dropna(numeric, "lon"), "lat")

\* The filter on the kind of plant
\* (hydropower_prep.py 57, hydropower_prep_EU.py 56).
plants(variant, data) ==
    IF variant = "hydropower_prep"
    THEN SelectSeq(data, LAMBDA row : row.Fuel_Type \in {"Run - Off", "Reservoir "})
    ELSE SelectSeq(data, LAMBDA row : row.type \in {"HDAM", "HPHS"})

\* hydropower_prep.py 46-52: on a table without rows DataFrame.apply returns
\* a DataFrame, which has no tolist: AttributeError.
convert_raises(variant, data) == variant = "hydropower_prep" /\ data = <<>>

\* The script raises before the export: the coordinates cannot be converted
\* or the capacity of a row that is still in the table is no number
\* (hydropower_prep.py 58, hydropower_prep_EU.py 57).
variant_raises(variant, csv) ==
    \/ convert_raises(variant, with_coordinates(variant, csv))
    \/ to_numeric_raises(plants(variant, with_coordinates(variant, csv)))

\* The table at the capacity conversion.
variant_numeric(variant, csv) ==
    LET data == plants(variant, with_coordinates(variant, csv))
    IN  [k \in DOMAIN data |-> [data[k] EXCEPT !.capacity = capacity_to_numeric(@)]]

\* data_existing: hydropower_prep.py 59-62 (Status contains 'Existing', then
\* dropna on head), hydropower_prep_EU.py 60 (dropna on head).
variant_existing(variant, data) ==
    IF variant = "hydropower_prep"
    THEN dropna(SelectSeq(data, LAMBDA row : row.Status = "Existing"), "head")
    ELSE dropna(data, "head")

InitStandalone ==
    /\ AfterIdle
    /\ \E variant \in {"hydropower_prep", "hydropower_prep_EU"} :
         \E csv \in VariantTables(variant) :
            b = [pc |-> "loaded", variant |-> variant, csv |-> csv,
                 data |-> <<>>, gpkg |-> None]

\* Read, convert and filter up to the capacity conversion.
StandaloneConvert ==
    /\ b.pc = "loaded"
    /\ ~variant_raises(b.variant, b.csv)
    /\ b' = [b EXCEPT !.pc = "numeric_standalone",
                      !.data = variant_numeric(b.variant, b.csv)]
    /\ UNCHANGED afterVars

\* The script raises: the run ends.
StandaloneFault ==
    /\ b.pc = "loaded"
    /\ variant_raises(b.variant, b.csv)
    /\ b' = [b EXCEPT !.pc = "fault"]
    /\ UNCHANGED afterVars

\* Keep the existing plants with a head and write the layer.
StandaloneExport ==
    /\ b.pc = "numeric_standalone"
    /\ b' = [b EXCEPT !.pc = "exported",
                      !.gpkg = Some(variant_existing(b.variant, b.data))]
    /\ UNCHANGED afterVars

\* Every variant of the hydropower preparation.
InitVariants == InitHydro \/ InitStandalone

NextVariants ==
    \/ HydroConvert \/ HydroConvertFault \/ HydroExport
    \/ StandaloneConvert \/ StandaloneFault \/ StandaloneExport

SpecVariants == InitVariants /\ [][NextVariants]_vars

\* The record has coordinates that are numbers.
HasCoordinates(row) ==
    IF b.variant = "hydropower_prep"
    THEN row.East_E.kind = "number" /\ row.North_N.kind = "number"
    ELSE row.lon.kind = "number" /\ row.lat.kind = "number"

\* The record passes the filters that come before the one on head.
PassedEarlierFilters(row) ==
    /\ HasCoordinates(row)
    /\ b.variant = "hydropower_prep" =>
         row.Fuel_Type \in {"Run - Off", "Reservoir "} /\ row.Status = "Existing"
    /\ b.variant = "hydropower_prep_EU" => row.type \in {"HDAM", "HPHS"}

\* The records whose capacity is converted: all of them in
\* prep_before_spider, those left by the coordinate and plant filters in
\* the standalone scripts.
Converted(row) ==
    \/ b.variant = "prep_before_spider"
    \/ /\ HasCoordinates(row)
       /\ b.variant = "hydropower_prep" => row.Fuel_Type \in {"Run - Off", "Reservoir "}
       /\ b.variant = "hydropower_prep_EU" => row.type \in {"HDAM", "HPHS"}

\* The ids of the rows written, in order.
WrittenIds == [k \in DOMAIN b.gpkg[1] |-> b.gpkg[1][k].id]

RECURSIVE Increasing(_)
Increasing(ids) ==
    Len(ids) < 2 \/ (ids[1] < ids[2] /\ Increasing(Tail(ids)))

\* C21: in each of the three hydropower preparations the layer written holds
\* exactly the records that passed the earlier filters and have a head, in
\* the table's order, so every written record has a head; and a run ends in
\* an error only over a capacity that is no number or, in hydropower_prep.py,
\* over a table with no record that has coordinates, never over a missing
\* head.
C21Theorem ==
    /\ b.pc = "exported" =>
         /\ {WrittenIds[k] : k \in DOMAIN WrittenIds}
              = {k \in DOMAIN b.csv :
                    PassedEarlierFilters(b.csv[k]) /\ b.csv[k].head # NaN}
         /\ Increasing(WrittenIds)
         /\ \A k \in DOMAIN b.gpkg[1] :
              /\ b.gpkg[1][k].head # NaN
              /\ b.gpkg[1][k].head = b.csv[b.gpkg[1][k].id].head
    /\ b.pc = "fault" =>
         \/ \E k \in DOMAIN b.csv : Converted(b.csv[k]) /\ b.csv[k].capacity = Text
         \/ /\ b.variant = "hydropower_prep"
            /\ \A k \in DOMAIN b.csv : ~HasCoordinates(b.csv[k])

\* A layer has been written from a table that holds a record without head
\* that passed the earlier filters, and a record with one.
C21WitnessIn(variant) ==
    /\ b.pc = "exported" /\ b.variant = variant
    /\ \E j, k \in DOMAIN b.csv :
         /\ PassedEarlierFilters(b.csv[j]) /\ b.csv[j].head = NaN
         /\ PassedEarlierFilters(b.csv[k]) /\ b.csv[k].head # NaN
    /\ Len(b.gpkg[1]) = 1


\* The case in hydropower_prep.py, whose filters are the most.
C21Witness == C21WitnessIn("hydropower_prep")


---------------------------------------------------------------------------
(* prep_before_spider.py: what the exclusion step reads *)

\* The files the exclusion step has opened, or tried to open, for the
\* current country: the pickle of line 283 and the files the engine calls
\* read.
ExclusionReads ==
    {b_epsg_path}
    \cup (IF b.pc = "fault" THEN {}
          ELSE {b.calls[k].reads : k \in DOMAIN b.calls} \ {<<>>})

\* The files the staging step wrote for the current country in this pass of
\* the loop.
StagedNow ==
    {f \in StagedFiles(clean_country_name(b_country)) :
        [path |-> f, iter |-> b.i] \in b.written}

\* The four staged files the exclusion step is for.
ExclusionInputs ==
    LET clean == clean_country_name(b_country)
    IN  {glaes_data(clean, "_EPSG.pkl"), glaes_data(clean, ".geojson"),
         glaes_data(clean, "_oceans.geojson"), glaes_data(clean, "_CLC.tif")}

\* C22 as stated: in prep_before_spider, whatever the country's name, every
\* file the exclusion step opens is one the staging step wrote for that
\* country in the same pass of the loop, and once the step is complete the
\* files it read are the pickle, the boundary, the oceans layer and the
\* land-cover raster that were staged.
C22Claim ==
    (b.driver = "prep_before_spider" /\ b.pc \in {"engine", "excluded", "fault"}) =>
        /\ ExclusionReads \subseteq StagedNow
        /\ b.pc = "excluded" => ExclusionReads = ExclusionInputs

\* The same for the countries whose name the cleaning leaves as it is.
C22ForCleanNames ==
    (b.driver = "prep_before_spider" /\ b.pc \in {"engine", "excluded", "fault"}
       /\ clean_country_name(b_country) = b_country) =>
        /\ ExclusionReads \subseteq StagedNow
        /\ b.pc = "excluded" => ExclusionReads = ExclusionInputs


====
